---- MODULE Spec2Model ----
(***************************************************************************)
(* Model of the Calino image server: the PostgreSQL server                 *)
(* (src/unnamed/part_000: license redemption and the bounded per-user      *)
(* history) and the flat-file server (src/server.js: per-user JSON         *)
(* history files).                                                         *)
(*                                                                         *)
(* Every `await` of a handler is a point where another request may run,    *)
(* so a handler that awaits several times is modelled by one action per    *)
(* awaited operation.  Everything between two awaits is one action.        *)
(***************************************************************************)
EXTENDS Integers, Sequences, FiniteSets, TLC

VARIABLES
    license_usage,     \* rows of table license_usage
    lic,               \* POST /api/verify-license requests, by arrival number
    tokenConfigured,   \* process.env.GUMROAD_ACCESS_TOKEN is set
    user_history,      \* rows of table user_history
    hres,              \* the last response of a history endpoint, with its request
    appended,          \* history of the run: the items appended so far
    files,             \* flat-file server: history-data/<userId>.json
    poolMax,           \* the size of the connection pool
    ap,                \* POST /api/history requests between their awaits
    leaked,            \* clients of handlers that ended without release()
    unevicted,         \* history of the run: users left with an upsert whose
                       \* rolling limit did not run
    post,              \* flat-file POST /api/history requests, by arrival number
    adm                \* the GET /api/admin/licenses request

vars ==
    <<license_usage, lic, tokenConfigured, user_history, hres, appended, files,
      poolMax, ap, leaked, unevicted, adm, post>>
licenseVars == <<license_usage, lic, tokenConfigured>>
historyVars == <<user_history, hres, appended, files>>
poolVars == <<poolMax, ap, leaked, unevicted, adm>>

(***************************************************************************)
(* Bounds                                                                  *)
(***************************************************************************)
NumRequests == 2       \* verify-license requests in one run
MaxTime == 2           \* clock readings are 0..MaxTime
TicksPerDay == 2       \* clock readings of one calendar day
RetentionLimit == 2    \* stands for the LIMIT 50 of the rolling limit
MaxTimestamp == 3      \* history timestamps are 1..MaxTimestamp
FileLimit == 3         \* stands for the 200 items a history file keeps
NumAppends == 2        \* POST /api/history requests in flight at one time

Requests == 1..NumRequests
Appends == 1..NumAppends
Times == 0..MaxTime

\* new Pool({ connectionString, ssl }): the pool hands out at most poolMax
\* clients at a time, and pool.connect() waits while all of them are out.
\* The sizes of the model: a pool that one request exhausts, and a pool that
\* the requests of a run do not exhaust unless clients leak.
PoolSizes == {1, NumRequests}
HeldClients ==
    Cardinality({r \in Requests : lic[r].client})
        + Cardinality({a \in Appends : ap[a].client}) + leaked
        + (IF adm.client THEN 1 ELSE 0)

\* Users, license keys and item ids are opaque strings, and every handler
\* treats them alike.  So a request names one that the state already holds,
\* or the first one the state does not hold.
UserNames == <<"u1", "u2">>
KeyNames == <<"k1", "k2">>
Range(seq) == {seq[i] : i \in 1..Len(seq)}
Users == Range(UserNames)
LicenseKeys == Range(KeyNames)
SeenOrNext(names, seen) ==
    {names[i] : i \in {k \in 1..Len(names) :
        names[k] \in seen \/ \A j \in 1..(k - 1) : names[j] \in seen}}

(***************************************************************************)
(* POST /api/verify-license: data                                          *)
(***************************************************************************)
Starter == "2FqGqjM16Jjs0NDRtncN4g=="
Creator == "wIY3NX2VLnJ48nTz0ZVTIA=="
Pro == "711rWT3AqbdSnNL0p9MxIw=="
OtherProduct == "other-product"
ProductIds == {Starter, Creator, Pro, OtherProduct}

\* A field the request body does not carry (falsy in JavaScript).
Missing == ""
Truthy(s) == s # ""

\* const productInfo = productTierMap[productId] || { tier: 'unknown', flowers: 0 }
ProductInfoAllStarter(productId) == [tier |-> "starter", flowers |-> 50]
ProductInfo(productId) ==
    CASE productId = Starter -> [tier |-> "starter", flowers |-> 50]
      [] productId = Creator -> [tier |-> "creator", flowers |-> 130]
      [] productId = Pro -> [tier |-> "pro", flowers |-> 300]
      [] OTHER -> [tier |-> "unknown", flowers |-> 0]

\* data.purchase of the verifier's answer: opaque to the server.
Purchase(productId, licenseKey) ==
    [product_id |-> productId, license_key |-> licenseKey]
NoPurchase == Purchase("", "")

\* What one call of the Gumroad API comes to: fetch() rejects (unreachable,
\* timed out), response.json() rejects (malformed body), or a JSON body.
GumroadMessage == "That license does not exist for the provided product."
Authentic == [thrown |-> "", ok |-> TRUE, success |-> TRUE, message |-> ""]
NotAuthentic ==
    [thrown |-> "", ok |-> FALSE, success |-> FALSE, message |-> GumroadMessage]
NotAuthenticNoMessage ==
    [thrown |-> "", ok |-> TRUE, success |-> FALSE, message |-> ""]
Unreachable == [thrown |-> "fetch", ok |-> FALSE, success |-> FALSE, message |-> ""]
Malformed == [thrown |-> "json", ok |-> TRUE, success |-> FALSE, message |-> ""]
NoData == [thrown |-> "unset", ok |-> FALSE, success |-> FALSE, message |-> ""]
VerifierReplies ==
    {Authentic, NotAuthentic, NotAuthenticNoMessage, Unreachable, Malformed}

\* if (response.ok && data.success)
AcceptedOkOnly(data) == data.ok
Accepted(data) == data.ok /\ data.success

\* usage.activated_at.toLocaleDateString(): the day of a clock reading.
ToLocaleDateString(t) == t \div TicksPerDay

(***************************************************************************)
(* POST /api/verify-license: responses                                     *)
(***************************************************************************)
NoResponse ==
    [status |-> 0, success |-> "absent", alreadyUsed |-> FALSE, message |-> "",
     usedOn |-> -1, usedBy |-> "", tier |-> "", flowers |-> -1,
     purchase |-> NoPurchase, error |-> ""]

\* res.status(400).json({ error: '... are required' })
BadRequestResponse ==
    [NoResponse EXCEPT !.status = 400,
        !.error = "productId, licenseKey, and userId are required"]

\* res.json({ success: false, message: `... activated on ${date} by user
\* ${user} ...`, alreadyUsed: true }); the message's two holes are usedOn
\* and usedBy.
AlreadyUsedResponse(usage) ==
    [NoResponse EXCEPT !.status = 200, !.success = "false", !.alreadyUsed = TRUE,
        !.message = "This license key has already been activated",
        !.usedOn = ToLocaleDateString(usage.activated_at),
        !.usedBy = usage.user_id]

\* res.status(500).json({ error: 'Gumroad access token not configured' })
NoTokenResponse ==
    [NoResponse EXCEPT !.status = 500,
        !.error = "Gumroad access token not configured"]

\* res.json({ success: true, purchase, tier, flowers, tokensGranted })
SuccessResponse(productInfo, purchase) ==
    [NoResponse EXCEPT !.status = 200, !.success = "true",
        !.tier = productInfo.tier, !.flowers = productInfo.flowers,
        !.purchase = purchase]

\* res.json({ success: false, message: data.message || '...' })
DefaultFailedMessage == "License verification failed with Gumroad"
VerificationFailedResponse(data) ==
    [NoResponse EXCEPT !.status = 200, !.success = "false",
        !.message = IF Truthy(data.message) THEN data.message
                    ELSE DefaultFailedMessage]

\* The outer catch: res.status(500).json({ success: false, error: '...' })
InternalErrorAsFailure ==
    [NoResponse EXCEPT !.status = 200, !.success = "false",
        !.message = DefaultFailedMessage]
InternalErrorResponse ==
    [NoResponse EXCEPT !.status = 500, !.success = "false",
        !.error = "Internal server error during license verification"]

(***************************************************************************)
(* Table license_usage                                                     *)
(***************************************************************************)
\* SELECT * FROM license_usage WHERE license_key = $1
NoExistingLicense(table, licenseKey) == {}
ExistingLicense(table, licenseKey) ==
    {row \in table : row.license_key = licenseKey}

\* license_key VARCHAR(255) UNIQUE NOT NULL: an INSERT of a key the table
\* holds raises a unique violation.
NoUniqueConstraint(table, licenseKey) == FALSE
UniqueViolation(table, licenseKey) ==
    \E row \in table : row.license_key = licenseKey

\* activated_at TIMESTAMP DEFAULT CURRENT_TIMESTAMP: a reading of a clock
\* that never runs backwards.
ClockReadings(table) ==
    {t \in Times : \A row \in table : row.activated_at <= t}

\* INSERT INTO license_usage (license_key, user_id, product_id, product_tier,
\* flowers_granted, gumroad_data) VALUES (...); status DEFAULT 'active'.
LicenseRow(request, productInfo, now) ==
    [license_key |-> request.licenseKey,
     user_id |-> request.userId,
     product_id |-> request.productId,
     product_tier |-> productInfo.tier,
     flowers_granted |-> productInfo.flowers,
     activated_at |-> now,
     gumroad_data |-> Purchase(request.productId, request.licenseKey),
     status |-> "active"]

(***************************************************************************)
(* POST /api/verify-license: the handler                                   *)
(* pc: new -> (waiting ->) connected -> fetching -> inserting -> done      *)
(***************************************************************************)
NewRequest ==
    [pc |-> "new", productId |-> Missing, licenseKey |-> Missing,
     userId |-> Missing, client |-> FALSE, fetches |-> 0, data |-> NoData,
     res |-> NoResponse]

Respond(request, response) ==
    [request EXCEPT !.pc = "done", !.client = FALSE, !.res = response]

SeenKeys == {lic[q].licenseKey : q \in Requests}
SeenLicenseUsers == {lic[q].userId : q \in Requests}

\* The request arrives: the body is validated, pool.connect() is awaited.
\* Requests are numbered in order of arrival.
VerifyLicenseReceive(r) ==
    /\ lic[r].pc = "new"
    /\ \A q \in Requests : q < r => lic[q].pc # "new"
    /\ \E productId \in ProductIds \cup {Missing},
          licenseKey \in SeenOrNext(KeyNames, SeenKeys) \cup {Missing},
          userId \in SeenOrNext(UserNames, SeenLicenseUsers) \cup {Missing} :
        LET request == [lic[r] EXCEPT !.productId = productId,
                                      !.licenseKey = licenseKey,
                                      !.userId = userId]
        IN  IF ~Truthy(productId) \/ ~Truthy(licenseKey) \/ ~Truthy(userId)
            THEN lic' = [lic EXCEPT ![r] = Respond(request, BadRequestResponse)]
            ELSE IF HeldClients < poolMax
            THEN lic' = [lic EXCEPT ![r] =
                            [request EXCEPT !.pc = "connected", !.client = TRUE]]
            ELSE lic' = [lic EXCEPT ![r] = [request EXCEPT !.pc = "waiting"]]
    /\ UNCHANGED <<license_usage, tokenConfigured, historyVars, poolVars, post>>

\* pool.connect() resolves: a client was released, and the request is the
\* one that has waited longest.
VerifyLicenseConnect(r) ==
    /\ lic[r].pc = "waiting"
    /\ \A q \in Requests : q < r => lic[q].pc # "waiting"
    /\ HeldClients < poolMax
    /\ lic' = [lic EXCEPT ![r] = [lic[r] EXCEPT !.pc = "connected",
                                                !.client = TRUE]]
    /\ UNCHANGED <<license_usage, tokenConfigured, historyVars, poolVars, post>>

\* The pre-check SELECT returns; on no row the Gumroad call is issued.
VerifyLicensePreCheck(r) ==
    /\ lic[r].pc = "connected"
    /\ LET existingLicense == ExistingLicense(license_usage, lic[r].licenseKey)
       IN  IF existingLicense # {}
           THEN \E usage \in existingLicense :
                   lic' = [lic EXCEPT ![r] =
                              Respond(lic[r], AlreadyUsedResponse(usage))]
           ELSE IF ~tokenConfigured
           THEN lic' = [lic EXCEPT ![r] = Respond(lic[r], NoTokenResponse)]
           ELSE lic' = [lic EXCEPT ![r] =
                           [lic[r] EXCEPT !.pc = "fetching",
                                          !.fetches = lic[r].fetches + 1]]
    /\ UNCHANGED <<license_usage, tokenConfigured, historyVars, poolVars, post>>

\* fetch() and response.json() settle; on an authentic answer the INSERT
\* is issued.
VerifyLicenseFetched(r) ==
    /\ lic[r].pc = "fetching"
    /\ \E data \in VerifierReplies :
        LET request == [lic[r] EXCEPT !.data = data]
        IN  IF data.thrown # ""
            THEN lic' = [lic EXCEPT ![r] = Respond(request, InternalErrorResponse)]
            ELSE IF Accepted(data)
            THEN lic' = [lic EXCEPT ![r] = [request EXCEPT !.pc = "inserting"]]
            ELSE lic' = [lic EXCEPT ![r] =
                            Respond(request, VerificationFailedResponse(data))]
    /\ UNCHANGED <<license_usage, tokenConfigured, historyVars, poolVars, post>>

\* The INSERT returns: a row was written, or the unique constraint threw.
VerifyLicenseInsert(r) ==
    /\ lic[r].pc = "inserting"
    /\ LET productInfo == ProductInfo(lic[r].productId)
       IN  IF UniqueViolation(license_usage, lic[r].licenseKey)
           THEN /\ lic' = [lic EXCEPT ![r] = Respond(lic[r], InternalErrorResponse)]
                /\ UNCHANGED license_usage
           ELSE \E now \in ClockReadings(license_usage) :
                /\ license_usage' =
                       license_usage \cup {LicenseRow(lic[r], productInfo, now)}
                /\ lic' = [lic EXCEPT ![r] =
                              Respond(lic[r],
                                      SuccessResponse(productInfo,
                                          Purchase(lic[r].productId,
                                                   lic[r].licenseKey)))]
    /\ UNCHANGED <<tokenConfigured, historyVars, poolVars, post>>

(***************************************************************************)
(* Table user_history                                                      *)
(* A row is identified by item_id (UNIQUE), which stands for the serial id *)
(* as well.  frame_name, quality, width and height are stored and returned *)
(* verbatim and read by no handler: they are left out.                     *)
(***************************************************************************)
NumItems == RetentionLimit + 1
ItemNames == SubSeq(<<"i1", "i2", "i3", "i4", "i5", "i6">>, 1, NumItems)
ItemIds == Range(ItemNames)
Timestamps == 1..MaxTimestamp

\* A prompt is a string of characters; req.body.prompt may be undefined.
UndefinedPrompt == <<"undefined">>

\* SELECT COUNT(*) FROM user_history WHERE user_id = $1
UserRows(table, userId) == {row \in table : row.user_id = userId}
CountUser(table, userId) == Cardinality(UserRows(table, userId))

\* INSERT INTO user_history (...) VALUES (...)
HistoryRow(userId, historyItem, timestamp) ==
    [user_id |-> userId,
     item_id |-> historyItem.id,
     prompt |-> historyItem.prompt,
     image_url |-> historyItem.imageUrl,
     original_image_url |-> historyItem.originalImageUrl,
     frame_id |-> historyItem.frameId,
     timestamp |-> timestamp]

\* ON CONFLICT (item_id) DO UPDATE SET prompt, image_url, original_image_url,
\* timestamp = EXCLUDED.*: the row that holds the item_id, whoever owns it.
OnConflictUpdate(row, historyItem, timestamp) ==
    [row EXCEPT !.prompt = historyItem.prompt,
                !.image_url = historyItem.imageUrl,
                !.original_image_url = historyItem.originalImageUrl,
                !.timestamp = timestamp]

Upsert(table, userId, historyItem, timestamp) ==
    IF \E row \in table : row.item_id = historyItem.id
    THEN {IF row.item_id = historyItem.id
          THEN OnConflictUpdate(row, historyItem, timestamp)
          ELSE row : row \in table}
    ELSE table \cup {HistoryRow(userId, historyItem, timestamp)}

\* SELECT id FROM user_history WHERE user_id = $2 ORDER BY timestamp DESC
\* LIMIT 50: the sets of rows the subquery may return (rows of equal
\* timestamp come in any order).
Min(a, b) == IF a <= b THEN a ELSE b
KeptRowsOldest(table, userId) ==
    LET mine == UserRows(table, userId)
    IN  {kept \in SUBSET mine :
            /\ Cardinality(kept) = Min(RetentionLimit, Cardinality(mine))
            /\ \A k \in kept, d \in mine \ kept : k.timestamp <= d.timestamp}
KeptRows(table, userId) ==
    LET mine == UserRows(table, userId)
    IN  {kept \in SUBSET mine :
            /\ Cardinality(kept) = Min(RetentionLimit, Cardinality(mine))
            /\ \A k \in kept, d \in mine \ kept : k.timestamp >= d.timestamp}

\* DELETE FROM user_history WHERE user_id = $1 AND id NOT IN (subquery)
DeleteNone(table, userId, kept) == table
DeleteExcept(table, userId, kept) ==
    {row \in table : row.user_id # userId \/ row \in kept}

(***************************************************************************)
(* History endpoints: responses                                            *)
(***************************************************************************)
\* JSON.stringify writes NaN and Infinity as null.
JsonNull == -1

NoHistoryResponse ==
    [op |-> "none", userId |-> "", itemId |-> "", page |-> "", limit |-> "",
     search |-> <<>>, status |-> 0, success |-> FALSE, totalItems |-> -1,
     items |-> <<>>, totalPages |-> -1, currentPage |-> -1,
     updatedRows |-> -1, message |-> "", error |-> "", details |-> ""]

\* res.json({ success: true, totalItems: parseInt(countResult.rows[0].count) })
SavedResponse(userId, count) ==
    [NoHistoryResponse EXCEPT !.op = "append", !.userId = userId,
        !.status = 200, !.success = TRUE, !.totalItems = count]

\* error.message of the errors a client.query() rejects with: a NOT NULL
\* violation, or a failure of the connection to the database.
NotNullViolation == "null value in column violates not-null constraint"
ConnectionLost == "Connection terminated unexpectedly"

\* res.status(500).json({ error: 'Failed to save history',
\*                        details: error.message })
SaveFailedAsSaved(userId, errorMessage) ==
    [NoHistoryResponse EXCEPT !.op = "append", !.userId = userId,
        !.status = 200, !.success = TRUE, !.totalItems = 0]
SaveFailedResponse(userId, errorMessage) ==
    [NoHistoryResponse EXCEPT !.op = "append", !.userId = userId,
        !.status = 500, !.error = "Failed to save history",
        !.details = errorMessage]

(***************************************************************************)
(* POST /api/history/:userId (PostgreSQL), one request at a time           *)
(***************************************************************************)
\* const timestamp = historyItem.timestamp ? new Date(historyItem.timestamp)
\*                                         : new Date()
\* (timestamp 0 stands for an absent one: both are falsy).
TimestampOf(historyItem) ==
    IF historyItem.timestamp # 0 THEN {historyItem.timestamp} ELSE Timestamps

\* The history of the run, for the claims: the appends answered 200, as long
\* as no item id was appended twice.
LogAppend(log, userId, historyItem, timestamp) ==
    IF log.distinct /\ \A a \in log.items : a.item_id # historyItem.id
    THEN [log EXCEPT !.items = log.items \cup
              {[user_id |-> userId, item_id |-> historyItem.id,
                timestamp |-> timestamp]}]
    ELSE [distinct |-> FALSE, items |-> {}]

\* item_id and prompt are NOT NULL: the INSERT of an undefined one throws.
\* Otherwise: the upsert, the count, then the rolling limit.
PostHistory(userId, historyItem) ==
    IF ~Truthy(historyItem.id) \/ historyItem.prompt = UndefinedPrompt
    THEN /\ hres' = SaveFailedResponse(userId, NotNullViolation)
         /\ UNCHANGED <<user_history, appended, files>>
    ELSE \E timestamp \in TimestampOf(historyItem) :
         LET upserted == Upsert(user_history, userId, historyItem, timestamp)
             count == CountUser(upserted, userId)
         IN  \E kept \in KeptRows(upserted, userId) :
             /\ user_history' = DeleteExcept(upserted, userId, kept)
             /\ hres' = SavedResponse(userId, count)
             /\ appended' = LogAppend(appended, userId, historyItem, timestamp)
             /\ UNCHANGED files

SeenItems ==
    {row.item_id : row \in user_history} \cup {a.item_id : a \in appended.items}
SeenHistoryUsers == {row.user_id : row \in user_history} \cup {hres.userId}

\* The request bodies of the retention runs: one prompt, one image.
PlainPrompt == <<"c", "a", "t">>
RetentionItems ==
    [id : SeenOrNext(ItemNames, SeenItems) \cup {Missing},
     prompt : {PlainPrompt}, imageUrl : {"img1"},
     originalImageUrl : {"orig1"}, frameId : {"f1"},
     timestamp : Timestamps \cup {0}]

HistoryAppend ==
    /\ \E userId \in SeenOrNext(UserNames, SeenHistoryUsers),
          historyItem \in RetentionItems :
           PostHistory(userId, historyItem)
    /\ UNCHANGED <<licenseVars, poolVars, post>>

(***************************************************************************)
(* Strings: prompts and search texts are sequences of characters           *)
(***************************************************************************)
\* Case folding, as ILIKE and toLowerCase() do it.
LowerCase(ch) ==
    CASE ch = "A" -> "a"
      [] ch = "C" -> "c"
      [] ch = "T" -> "t"
      [] OTHER -> ch
ToLowerCase(str) == [i \in 1..Len(str) |-> LowerCase(str[i])]

\* String.prototype.trim()
RECURSIVE TrimStart(_)
TrimStart(str) ==
    IF str # <<>> /\ Head(str) = " " THEN TrimStart(Tail(str)) ELSE str
RECURSIVE TrimEnd(_)
TrimEnd(str) ==
    IF str # <<>> /\ str[Len(str)] = " "
    THEN TrimEnd(SubSeq(str, 1, Len(str) - 1))
    ELSE str
Trim(str) == TrimEnd(TrimStart(str))

\* PostgreSQL's  str ILIKE pattern : % matches any string, _ any one
\* character, any other character itself, whatever its case.  (No string
\* of the model holds the escape character.)
RECURSIVE Like(_, _)
Like(str, pattern) ==
    IF pattern = <<>> THEN str = <<>>
    ELSE IF Head(pattern) = "%"
         THEN Like(str, Tail(pattern)) \/ (str # <<>> /\ Like(Tail(str), pattern))
    ELSE IF str = <<>> THEN FALSE
    ELSE IF Head(pattern) = "_" THEN Like(Tail(str), Tail(pattern))
    ELSE Head(str) = Head(pattern) /\ Like(Tail(str), Tail(pattern))
ILike(str, pattern) == Like(ToLowerCase(str), ToLowerCase(pattern))

\* parseInt of a query parameter that is a decimal numeral.
Numerals == <<"0", "1", "2", "3", "4", "5", "6", "7", "8", "9", "10">>
ParseInt(str) == (CHOOSE n \in 1..Len(Numerals) : Numerals[n] = str) - 1

\* Math.ceil(a / b) for a >= 0; a division by zero gives NaN or Infinity.
CeilDiv(a, b) == IF b = 0 THEN JsonNull ELSE (a + b - 1) \div b

(***************************************************************************)
(* GET /api/history/:userId (PostgreSQL)                                   *)
(***************************************************************************)
\* const { page = 0, limit = 10, search = '' } = req.query; an absent
\* parameter is "" (<<>> for search).
PageOf(page) == IF page = "" THEN "0" ELSE page
LimitOf(limit) == IF limit = "" THEN "10" ELSE limit

\* if (search && search.trim())  AND prompt ILIKE '%' + search.trim() + '%'
Filtered(table, userId, search) ==
    IF search # <<>> /\ Trim(search) # <<>>
    THEN {row \in UserRows(table, userId) :
             ILike(row.prompt, <<"%">> \o Trim(search) \o <<"%">>)}
    ELSE UserRows(table, userId)

\* ORDER BY timestamp DESC: the orders the rows may come in.
RECURSIVE OrderByTimestampDesc(_)
OrderByTimestampDesc(rows) ==
    IF rows = {} THEN {<<>>}
    ELSE UNION {{<<first>> \o rest : rest \in OrderByTimestampDesc(rows \ {first})} :
                first \in {r \in rows : \A q \in rows : r.timestamp >= q.timestamp}}

\* LIMIT $n OFFSET $m
LimitOffset(ordered, limitNum, offsetNum) ==
    SubSeq(ordered, offsetNum + 1, Min(offsetNum + limitNum, Len(ordered)))

\* result.rows.map(row => ({ id: row.item_id, prompt: row.prompt, ... }))
HistoryItemOf(row) ==
    [id |-> row.item_id, prompt |-> row.prompt, imageUrl |-> row.image_url,
     originalImageUrl |-> row.original_image_url, frameId |-> row.frame_id,
     timestamp |-> row.timestamp]

\* res.json({ items, totalPages, currentPage: parseInt(page), totalItems })
HistoryResponse(userId, page, limit, search, rows, totalItems) ==
    [NoHistoryResponse EXCEPT !.op = "query", !.userId = userId,
        !.page = page, !.limit = limit, !.search = search, !.status = 200,
        !.items = [i \in 1..Len(rows) |-> HistoryItemOf(rows[i])],
        !.totalItems = totalItems,
        !.totalPages =
            CeilDiv(totalItems,
                    IF LimitOf(limit) = "all" THEN totalItems
                    ELSE ParseInt(LimitOf(limit))),
        !.currentPage = ParseInt(PageOf(page))]

\* The SELECT and the COUNT run on the same table: no other request runs
\* between them in the runs of the model.
GetHistory(userId, page, limit, search) ==
    LET filtered == Filtered(user_history, userId, search)
    IN  /\ \E ordered \in OrderByTimestampDesc(filtered) :
            LET rows == IF LimitOf(limit) # "all"
                        THEN LimitOffset(ordered, ParseInt(LimitOf(limit)),
                                 ParseInt(PageOf(page)) * ParseInt(LimitOf(limit)))
                        ELSE ordered
            IN  hres' = HistoryResponse(userId, page, limit, search, rows,
                                        Cardinality(filtered))
        /\ UNCHANGED <<user_history, appended, files>>

\* The parameters of the queries of the model.
AdminPageParams == {""}
AdminLimitParams == {"", "1"}
PageParams == {"", "0", "1"}
LimitParams == {"", "1", "2", "all"}
SearchParams == {<<>>, <<"c">>, <<"_">>, <<" ">>, <<"c", " ">>}
QueryPrompts == {<<"a", "C">>, <<"b">>}

QueryItems ==
    [id : SeenOrNext(ItemNames, SeenItems), prompt : QueryPrompts,
     imageUrl : {"img1"}, originalImageUrl : {"orig1"}, frameId : {"f1"},
     timestamp : Timestamps]

\* A query changes no row: a run of the model ends with its first query.
QueryAppend ==
    /\ hres.op # "query"
    /\ \E userId \in SeenOrNext(UserNames, SeenHistoryUsers),
          historyItem \in QueryItems :
           PostHistory(userId, historyItem)
    /\ UNCHANGED <<licenseVars, poolVars, post>>

HistoryQuery ==
    /\ hres.op # "query"
    /\ \E userId \in Users, page \in PageParams, limit \in LimitParams,
          search \in SearchParams :
           GetHistory(userId, page, limit, search)
    /\ UNCHANGED <<licenseVars, poolVars, post>>

(***************************************************************************)
(* The flat-file server (src/server.js): one JSON file per user            *)
(***************************************************************************)
NoFile == [state |-> "missing", items |-> <<>>]
NoFiles == [u \in Users |-> NoFile]

\* A file whose text JSON.parse() rejects: the text of a history that was
\* cut off.
CutOffItem ==
    [id |-> "i1", prompt |-> <<"b">>, imageUrl |-> "img1",
     originalImageUrl |-> "orig1", frameId |-> "f1", timestamp |-> 1]
UnparseableFile == [state |-> "corrupt", items |-> <<CutOffItem>>]

\* try { history = JSON.parse(await fs.readFile(path)) } catch { history = [] }
ReadHistoryAnyText(file) == file.items
ReadHistory(file) == IF file.state = "json" THEN file.items ELSE <<>>

\* history.unshift(historyItem); history = history.slice(0, 200)
Push(history, historyItem) == history \o <<historyItem>>
Unshift(history, historyItem) == <<historyItem>> \o history
Truncate(history) == SubSeq(history, 1, Min(FileLimit, Len(history)))

\* parseInt of a query parameter: NaN unless it is a decimal numeral.
IsNumeral(str) == \E n \in 1..Len(Numerals) : Numerals[n] = str

\* str.includes(sub)
Includes(str, sub) ==
    \E i \in 0..(Len(str) - Len(sub)) : SubSeq(str, i + 1, i + Len(sub)) = sub

\* history.filter(item => item.prompt.toLowerCase().includes(searchLower))
RECURSIVE FilterBySearch(_, _)
FilterBySearch(history, searchLower) ==
    IF history = <<>> THEN <<>>
    ELSE IF Includes(ToLowerCase(Head(history).prompt), searchLower)
         THEN <<Head(history)>> \o FilterBySearch(Tail(history), searchLower)
         ELSE FilterBySearch(Tail(history), searchLower)

\* Array.prototype.slice(start, end); slice(NaN, NaN) is empty.
Slice(list, start, end) == SubSeq(list, start + 1, Min(end, Len(list)))

\* POST /api/history/:userId: read, prepend, truncate, write, respond.
FilePostHistory(userId, historyItem) ==
    LET history == Truncate(Unshift(ReadHistory(files[userId]), historyItem))
    IN  /\ files' = [files EXCEPT ![userId] = [state |-> "json", items |-> history]]
        /\ hres' = SavedResponse(userId, Len(history))
        /\ UNCHANGED <<user_history, appended>>

\* GET /api/history/:userId: read, filter, slice, respond.
FileGetHistory(userId, page, limit, search) ==
    LET history == ReadHistory(files[userId])
        filteredHistory == IF search # <<>>
                           THEN FilterBySearch(history, ToLowerCase(search))
                           ELSE history
        numeric == IsNumeral(LimitOf(limit))
        startIndex == ParseInt(PageOf(page)) * ParseInt(LimitOf(limit))
        endIndex == startIndex + ParseInt(LimitOf(limit))
    IN  /\ hres' =
            [NoHistoryResponse EXCEPT !.op = "query", !.userId = userId,
                !.page = page, !.limit = limit, !.search = search,
                !.status = 200,
                !.items = IF numeric
                          THEN Slice(filteredHistory, startIndex, endIndex)
                          ELSE <<>>,
                !.totalPages = IF numeric
                               THEN CeilDiv(Len(filteredHistory),
                                            ParseInt(LimitOf(limit)))
                               ELSE JsonNull,
                !.currentPage = ParseInt(PageOf(page)),
                !.totalItems = Len(history)]
        /\ UNCHANGED <<user_history, appended, files>>

\* The flat-file server reads and writes only the file of the request's
\* user: the runs of the model use one user.
FileUsers == {UserNames[1]}
SeenFileItems ==
    UNION {{files[u].items[i].id : i \in 1..Len(files[u].items)} : u \in FileUsers}
FileItems ==
    [id : SeenOrNext(ItemNames, SeenFileItems), prompt : QueryPrompts,
     imageUrl : {"img1"}, originalImageUrl : {"orig1"}, frameId : {"f1"},
     timestamp : {1, MaxTimestamp}]

\* A query writes no file: a run of the model ends with its first query.
FileAppend ==
    /\ hres.op # "query"
    /\ \E userId \in FileUsers, historyItem \in FileItems :
           FilePostHistory(userId, historyItem)
    /\ UNCHANGED <<licenseVars, poolVars, post>>

FileQuery ==
    /\ hres.op # "query"
    /\ \E userId \in FileUsers, page \in PageParams, limit \in LimitParams,
          search \in SearchParams :
           FileGetHistory(userId, page, limit, search)
    /\ UNCHANGED <<licenseVars, poolVars, post>>

(***************************************************************************)
(* POST /api/history/:userId of the flat-file server, one step per awaited *)
(* operation, several requests in flight                                   *)
(* pc: new -> writing -> done                                              *)
(***************************************************************************)
NoItem ==
    [id |-> "", prompt |-> <<>>, imageUrl |-> "", originalImageUrl |-> "",
     frameId |-> "", timestamp |-> 0]
NoFileResponse == [status |-> 0, success |-> FALSE, totalItems |-> -1]
NewPost ==
    [pc |-> "new", userId |-> "", historyItem |-> NoItem, history |-> <<>>,
     res |-> NoFileResponse]

\* res.json({ success: true, totalItems: history.length })
FileSavedResponse(history) ==
    [status |-> 200, success |-> TRUE, totalItems |-> Len(history)]
\* res.status(500).json({ error: 'Failed to save history' })
FileSaveFailedResponse == [status |-> 500, success |-> FALSE, totalItems |-> -1]

SeenPostItems ==
    {post[a].historyItem.id : a \in {b \in Appends : post[b].pc # "new"}}
PostItems ==
    [id : SeenOrNext(ItemNames, SeenPostItems), prompt : QueryPrompts,
     imageUrl : {"img1"}, originalImageUrl : {"orig1"}, frameId : {"f1"},
     timestamp : Timestamps]

\* The request arrives and readFile() settles: the handler holds the list it
\* read (empty when the read or the parse failed), with the item prepended
\* and cut to the limit, and awaits writeFile().  Requests are numbered in
\* order of arrival.
FilePostRead(a) ==
    /\ post[a].pc = "new"
    /\ \A b \in Appends : b < a => post[b].pc # "new"
    /\ \E userId \in FileUsers, historyItem \in PostItems :
        post' = [post EXCEPT ![a] =
            [post[a] EXCEPT !.pc = "writing", !.userId = userId,
                !.historyItem = historyItem,
                !.history = Truncate(Unshift(ReadHistory(files[userId]),
                                             historyItem))]]
    /\ UNCHANGED <<licenseVars, historyVars, poolVars>>

\* writeFile() resolves: the file holds the handler's list, whatever was
\* written to it since the handler read it.
FilePostWrite(a) ==
    /\ post[a].pc = "writing"
    /\ files' = [files EXCEPT ![post[a].userId] =
                    [state |-> "json", items |-> post[a].history]]
    /\ post' = [post EXCEPT ![a] =
                   [post[a] EXCEPT !.pc = "done",
                                   !.res = FileSavedResponse(post[a].history)]]
    /\ UNCHANGED <<licenseVars, user_history, hres, appended, poolVars>>

\* writeFile() rejects (no space, no permission): the catch answers 500.
FilePostWriteFailed(a) ==
    /\ post[a].pc = "writing"
    /\ post' = [post EXCEPT ![a] =
                   [post[a] EXCEPT !.pc = "done", !.res = FileSaveFailedResponse]]
    /\ UNCHANGED <<licenseVars, historyVars, poolVars>>

NextFilePost ==
    \E a \in Appends :
        FilePostRead(a) \/ FilePostWrite(a) \/ FilePostWriteFailed(a)

(***************************************************************************)
(* POST /api/history/:userId/update-frame                                  *)
(***************************************************************************)
\* UPDATE user_history SET frame_id = $1 WHERE user_id = $2 AND item_id = $3:
\* the rows the WHERE clause selects.
FrameMatchesAnyUser(table, userId, itemId) ==
    {row \in table : row.item_id = itemId}
FrameMatches(table, userId, itemId) ==
    {row \in table : row.user_id = userId /\ row.item_id = itemId}

SetFrame(table, matched, frameId) ==
    {IF row \in matched THEN [row EXCEPT !.frame_id = frameId] ELSE row :
        row \in table}

FrameResponse(userId, itemId) ==
    [NoHistoryResponse EXCEPT !.op = "frame", !.userId = userId,
        !.itemId = itemId]

\* res.status(400).json({ error: 'itemId and frameId are required' })
FrameBadRequest(userId, itemId) ==
    [FrameResponse(userId, itemId) EXCEPT !.status = 400,
        !.error = "itemId and frameId are required"]

\* res.json({ success: true, message, updatedRows: result.rowCount })
FrameUpdated(userId, itemId, rowCount) ==
    [FrameResponse(userId, itemId) EXCEPT !.status = 200, !.success = TRUE,
        !.message = "Updated frameId for item", !.updatedRows = rowCount]

\* res.status(404).json({ success: false, message })
FrameNotFound(userId, itemId) ==
    [FrameResponse(userId, itemId) EXCEPT !.status = 404,
        !.message = "No history item found with id for user"]

UpdateFrame(userId, itemId, frameId) ==
    IF ~Truthy(itemId) \/ ~Truthy(frameId)
    THEN /\ hres' = FrameBadRequest(userId, itemId)
         /\ UNCHANGED <<user_history, appended, files>>
    ELSE LET matched == FrameMatches(user_history, userId, itemId)
             rowCount == Cardinality(matched)
         IN  /\ user_history' = SetFrame(user_history, matched, frameId)
             /\ hres' = IF rowCount > 0
                        THEN FrameUpdated(userId, itemId, rowCount)
                        ELSE FrameNotFound(userId, itemId)
             /\ UNCHANGED <<appended, files>>

\* The requests of the update-frame runs.
FrameIds == {"f1", "f2"}
FrameItems ==
    [id : SeenOrNext(ItemNames, SeenItems), prompt : {PlainPrompt},
     imageUrl : {"img1"}, originalImageUrl : {"orig1"}, frameId : {"f1"},
     timestamp : {1}]

FrameAppend ==
    /\ \E userId \in SeenOrNext(UserNames, SeenHistoryUsers),
          historyItem \in FrameItems :
           PostHistory(userId, historyItem)
    /\ UNCHANGED <<licenseVars, poolVars, post>>

FrameUpdate ==
    /\ \E userId \in Users,
          itemId \in SeenOrNext(ItemNames, SeenItems) \cup {Missing},
          frameId \in FrameIds \cup {Missing} :
           UpdateFrame(userId, itemId, frameId)
    /\ UNCHANGED <<licenseVars, poolVars, post>>

(***************************************************************************)
(* POST /api/history/:userId (PostgreSQL), between its awaits              *)
(* pc: idle -> (waiting ->) upsert -> count -> delete -> idle              *)
(* Every client.query() is one statement in its own transaction; it takes  *)
(* effect at once or rejects.  The response of a request goes to hres, and *)
(* its slot is idle again.                                                 *)
(***************************************************************************)
IdleAppend ==
    [pc |-> "idle", userId |-> "", item |-> NoItem, timestamp |-> 0,
     count |-> -1, client |-> FALSE]

\* What no step of an append touches.
AppendFrame == <<licenseVars, appended, files, poolMax, adm, post>>

\* What a client.query() comes to: its rows, or a rejection.
QueryOutcomes == {"ok", "rejected"}

\* pool.connect() resolved: the timestamp is taken, the INSERT is issued.
Connected(request, timestamp) ==
    [request EXCEPT !.pc = "upsert", !.client = TRUE, !.timestamp = timestamp]

\* The catch block: the response, and nothing else; the client stays out.
AppendFail(a, errorMessage) ==
    /\ hres' = SaveFailedResponse(ap[a].userId, errorMessage)
    /\ ap' = [ap EXCEPT ![a] = IdleAppend]
    /\ leaked' = leaked + 1

\* The requests of the runs: item ids enough to overshoot the limit by one
\* for every request in flight.
AppendItemNames ==
    SubSeq(<<"i1", "i2", "i3", "i4", "i5", "i6", "i7", "i8">>, 1,
           RetentionLimit + NumAppends)
SeenAppendItems ==
    {row.item_id : row \in user_history} \cup {ap[a].item.id : a \in Appends}
\* Requests of one user, with a well-formed body, a body without id or a
\* body without prompt.
AppendUsers == {UserNames[1]}
AppendItems ==
    [id : SeenOrNext(AppendItemNames, SeenAppendItems) \cup {Missing},
     prompt : {PlainPrompt}, imageUrl : {"img1"},
     originalImageUrl : {"orig1"}, frameId : {"f1"}, timestamp : {1}]
    \cup
    [id : {AppendItemNames[1]}, prompt : {UndefinedPrompt}, imageUrl : {"img1"},
     originalImageUrl : {"orig1"}, frameId : {"f1"}, timestamp : {1}]

\* The request arrives; pool.connect() resolves at once or waits.
AppendReceive(a) ==
    /\ ap[a].pc = "idle"
    /\ \A b \in Appends : b < a => ap[b].pc # "idle"
    /\ \E userId \in AppendUsers, historyItem \in AppendItems :
        LET request == [ap[a] EXCEPT !.userId = userId, !.item = historyItem]
        IN  IF HeldClients < poolMax
            THEN \E timestamp \in TimestampOf(historyItem) :
                     ap' = [ap EXCEPT ![a] = Connected(request, timestamp)]
            ELSE ap' = [ap EXCEPT ![a] = [request EXCEPT !.pc = "waiting"]]
    /\ UNCHANGED <<user_history, hres, leaked, unevicted>>
    /\ UNCHANGED AppendFrame

AppendConnect(a) ==
    /\ ap[a].pc = "waiting"
    /\ HeldClients < poolMax
    /\ \E timestamp \in TimestampOf(ap[a].item) :
           ap' = [ap EXCEPT ![a] = Connected(ap[a], timestamp)]
    /\ UNCHANGED <<user_history, hres, leaked, unevicted>>
    /\ UNCHANGED AppendFrame

\* The INSERT ... ON CONFLICT returns.
AppendUpsert(a) ==
    /\ ap[a].pc = "upsert"
    /\ UNCHANGED AppendFrame
    /\ IF ~Truthy(ap[a].item.id) \/ ap[a].item.prompt = UndefinedPrompt
       THEN /\ AppendFail(a, NotNullViolation)
            /\ UNCHANGED <<user_history, unevicted>>
       ELSE \E outcome \in QueryOutcomes :
            IF outcome = "rejected"
            THEN /\ AppendFail(a, ConnectionLost)
                 /\ UNCHANGED <<user_history, unevicted>>
            ELSE /\ user_history' = Upsert(user_history, ap[a].userId,
                                           ap[a].item, ap[a].timestamp)
                 /\ ap' = [ap EXCEPT ![a] = [ap[a] EXCEPT !.pc = "count"]]
                 /\ UNCHANGED <<hres, leaked, unevicted>>

\* The SELECT COUNT(*) returns.
AppendCount(a) ==
    /\ ap[a].pc = "count"
    /\ UNCHANGED AppendFrame
    /\ \E outcome \in QueryOutcomes :
        IF outcome = "rejected"
        THEN /\ AppendFail(a, ConnectionLost)
             /\ unevicted' = unevicted \cup {ap[a].userId}
             /\ UNCHANGED user_history
        ELSE /\ ap' = [ap EXCEPT ![a] =
                          [ap[a] EXCEPT !.pc = "delete",
                              !.count = CountUser(user_history, ap[a].userId)]]
             /\ UNCHANGED <<user_history, hres, leaked, unevicted>>

\* The DELETE returns: client.release(), res.json().
AppendEvict(a) ==
    /\ ap[a].pc = "delete"
    /\ UNCHANGED AppendFrame
    /\ \E outcome \in QueryOutcomes :
        IF outcome = "rejected"
        THEN /\ AppendFail(a, ConnectionLost)
             /\ unevicted' = unevicted \cup {ap[a].userId}
             /\ UNCHANGED user_history
        ELSE \E kept \in KeptRows(user_history, ap[a].userId) :
             /\ user_history' = DeleteExcept(user_history, ap[a].userId, kept)
             /\ hres' = SavedResponse(ap[a].userId, ap[a].count)
             /\ ap' = [ap EXCEPT ![a] = IdleAppend]
             /\ unevicted' = unevicted \ {ap[a].userId}
             /\ UNCHANGED leaked

NextAppend ==
    \E a \in Appends :
        \/ AppendReceive(a)
        \/ AppendConnect(a)
        \/ AppendUpsert(a)
        \/ AppendCount(a)
        \/ AppendEvict(a)

(***************************************************************************)
(* GET /api/admin/licenses                                                 *)
(* pc: new -> select -> count -> done                                      *)
(***************************************************************************)
\* const { page = 0, limit = 50 } = req.query
DefaultAdminLimit == 50
AdminLimitOf(limit) == IF limit = "" THEN DefaultAdminLimit ELSE ParseInt(limit)

NoAdminResponse ==
    [status |-> 0, licenses |-> <<>>, totalItems |-> -1, totalPages |-> -1,
     currentPage |-> -1]
NewAdminRequest ==
    [pc |-> "new", page |-> "", limit |-> "", client |-> FALSE,
     licenses |-> <<>>, res |-> NoAdminResponse]

\* ORDER BY activated_at DESC: the orders the rows may come in.
RECURSIVE OrderByActivatedAtDesc(_)
OrderByActivatedAtDesc(rows) ==
    IF rows = {} THEN {<<>>}
    ELSE UNION {{<<first>> \o rest : rest \in OrderByActivatedAtDesc(rows \ {first})} :
                first \in {r \in rows : \A q \in rows : r.activated_at >= q.activated_at}}

\* SELECT license_key, user_id, product_tier, flowers_granted, activated_at,
\* status, ... FROM license_usage
AdminRowOf(row) ==
    [license_key |-> row.license_key, user_id |-> row.user_id,
     product_tier |-> row.product_tier, flowers_granted |-> row.flowers_granted,
     activated_at |-> row.activated_at, status |-> row.status]

\* res.json({ licenses, totalItems, totalPages, currentPage })
AdminResponse(request, totalItems) ==
    [NoAdminResponse EXCEPT !.status = 200, !.licenses = request.licenses,
        !.totalItems = totalItems,
        !.totalPages = CeilDiv(totalItems, AdminLimitOf(request.limit)),
        !.currentPage = ParseInt(PageOf(request.page))]

\* The request arrives and pool.connect() resolves: the SELECT is issued.
AdminReceive ==
    /\ adm.pc = "new"
    /\ HeldClients < poolMax
    /\ \E page \in AdminPageParams, limit \in AdminLimitParams :
        adm' = [adm EXCEPT !.pc = "select", !.client = TRUE,
                           !.page = page, !.limit = limit]
    /\ UNCHANGED <<licenseVars, historyVars, poolMax, ap, leaked, unevicted, post>>

\* The SELECT ... LIMIT $1 OFFSET $2 returns; the COUNT is issued.
AdminSelect ==
    /\ adm.pc = "select"
    /\ \E ordered \in OrderByActivatedAtDesc(license_usage) :
        LET rows == LimitOffset(ordered, AdminLimitOf(adm.limit),
                        ParseInt(PageOf(adm.page)) * AdminLimitOf(adm.limit))
        IN  adm' = [adm EXCEPT !.pc = "count",
                       !.licenses = [i \in 1..Len(rows) |-> AdminRowOf(rows[i])]]
    /\ UNCHANGED <<licenseVars, historyVars, poolMax, ap, leaked, unevicted, post>>

\* The SELECT COUNT(*) returns: client.release(), res.json().
AdminCount ==
    /\ adm.pc = "count"
    /\ adm' = [adm EXCEPT !.pc = "done", !.client = FALSE,
                  !.res = AdminResponse(adm, Cardinality(license_usage))]
    /\ UNCHANGED <<licenseVars, historyVars, poolMax, ap, leaked, unevicted, post>>

\* The server starts on the history-data directory as it is: the file of a
\* user is missing or does not parse.  (A file that parses is reached by
\* appends.)
InitialFiles ==
    {fs \in [Users -> {NoFile, UnparseableFile}] :
        \A u \in Users \ FileUsers : fs[u] = NoFile}

Init ==
    /\ license_usage = {}
    /\ lic = [r \in Requests |-> NewRequest]
    /\ tokenConfigured \in BOOLEAN
    /\ user_history = {}
    /\ hres = NoHistoryResponse
    /\ appended = [distinct |-> TRUE, items |-> {}]
    /\ files \in InitialFiles
    /\ poolMax \in PoolSizes
    /\ ap = [a \in Appends |-> IdleAppend]
    /\ leaked = 0
    /\ unevicted = {}
    /\ adm = NewAdminRequest
    /\ post = [a \in Appends |-> NewPost]

\* License redemption with a pool that the requests do not exhaust.
InitLicense == Init /\ poolMax = NumRequests /\ files = NoFiles
NextLicense ==
    \E r \in Requests :
        \/ VerifyLicenseReceive(r)
        \/ VerifyLicensePreCheck(r)
        \/ VerifyLicenseFetched(r)
        \/ VerifyLicenseInsert(r)

SpecLicense == InitLicense /\ [][NextLicense]_vars

\* License redemption with a pool smaller than the number of requests.
InitPool == Init /\ poolMax < NumRequests /\ files = NoFiles
NextPool == NextLicense \/ \E r \in Requests : VerifyLicenseConnect(r)
SpecPool == InitPool /\ [][NextPool]_vars

\* License redemption and one admin request.  The admin request changes no
\* row: a run of the model ends with its response.
NextAdmin ==
    \/ adm.pc # "done" /\ NextLicense
    \/ AdminReceive
    \/ AdminSelect
    \/ AdminCount
SpecAdmin == InitLicense /\ [][NextAdmin]_vars

\* Appends to the PostgreSQL history, one at a time: these runs observe the
\* store and the responses, with a pool that is not exhausted.
InitHistory ==
    Init /\ tokenConfigured /\ poolMax = NumRequests /\ files = NoFiles
NextHistory == HistoryAppend
SpecHistory == InitHistory /\ [][NextHistory]_vars

\* Appends to the PostgreSQL history, then one query.
NextQuery == QueryAppend \/ HistoryQuery
SpecQuery == InitHistory /\ [][NextQuery]_vars

\* The flat-file server: appends one at a time, then one query.
InitFile == Init /\ tokenConfigured /\ poolMax = NumRequests
SpecFilePost == InitFile /\ [][NextFilePost]_vars
NextFile == FileAppend \/ FileQuery
SpecFile == InitFile /\ [][NextFile]_vars

\* Appends to the PostgreSQL history and frame updates, one at a time.
NextFrame == FrameAppend \/ FrameUpdate
SpecFrame == InitHistory /\ [][NextFrame]_vars

\* Appends to the PostgreSQL history that run concurrently and may fail.
InitAppend == Init /\ tokenConfigured /\ files = NoFiles
SpecAppend == InitAppend /\ [][NextAppend]_vars

(***************************************************************************)
(* Claims about license redemption (checked under SpecLicense)             *)
(***************************************************************************)
Done(r) == lic[r].pc = "done"
HasRow(table, licenseKey) == \E row \in table : row.license_key = licenseKey

\* C1: in every reachable state each license key has at most one row in
\* license_usage, however the requests on that key interleave between the
\* pre-check, the verifier call and the insert.
C1_AtMostOneRedemption ==
    \A a \in license_usage, b \in license_usage :
        a.license_key = b.license_key => a = b

\* Two requests on one key both passed the pre-check and the verifier, both
\* issued their INSERT, and the key has a row.
C1_Witness ==
    \E r1 \in Requests, r2 \in Requests :
        /\ r1 # r2
        /\ lic[r1].licenseKey = lic[r2].licenseKey
        /\ Done(r1) /\ Done(r2)
        /\ lic[r1].data = Authentic /\ lic[r2].data = Authentic
        /\ lic[r1].userId # lic[r2].userId
        /\ HasRow(license_usage, lic[r1].licenseKey)

\* C2: when two or more requests with authentic credentials on a key never
\* redeemed before all pass the pre-check before any of them inserts, exactly
\* one gets success:true, and every other one gets the "already used" failure
\* (HTTP 200, success:false, alreadyUsed:true) naming the userId and
\* activatedAt of the winning row; no loser gets an infrastructure error.
\* (A request whose verifier answer is authentic passed the pre-check while
\* the key had no row, and rows are never deleted: so the requests of
\* Racers(k) all passed the pre-check before any insert on k.)
Racers(licenseKey) ==
    {r \in Requests : /\ Done(r)
                      /\ lic[r].licenseKey = licenseKey
                      /\ lic[r].data = Authentic}
C2_OneWinnerOthersAlreadyUsed ==
    \A k \in LicenseKeys :
        Cardinality(Racers(k)) >= 2 =>
            \E w \in Racers(k) :
                /\ lic[w].res.success = "true"
                /\ \A l \in Racers(k) \ {w} :
                    /\ lic[l].res.status = 200
                    /\ lic[l].res.success = "false"
                    /\ lic[l].res.alreadyUsed
                    /\ \E row \in license_usage :
                        /\ row.license_key = k
                        /\ row.user_id = lic[w].userId
                        /\ lic[l].res.usedBy = row.user_id
                        /\ lic[l].res.usedOn = ToLocaleDateString(row.activated_at)

\* C3: a request whose pre-check finds a row for its key (written for the
\* same user or for another one) answers HTTP 200 with success:false,
\* alreadyUsed:true and the row's activation date and user id, has not called
\* and will not call the verifier, and leaves license_usage unchanged.
C3_PreCheckStep ==
    \A r \in Requests :
        ( /\ lic[r].pc = "connected"
          /\ lic'[r] # lic[r]
          /\ HasRow(license_usage, lic[r].licenseKey) )
        => /\ lic'[r].pc = "done"
           /\ lic'[r].fetches = 0
           /\ license_usage' = license_usage
           /\ lic'[r].res.status = 200
           /\ lic'[r].res.success = "false"
           /\ lic'[r].res.alreadyUsed
           /\ \E row \in license_usage :
               /\ row.license_key = lic[r].licenseKey
               /\ lic'[r].res.usedBy = row.user_id
               /\ lic'[r].res.usedOn = ToLocaleDateString(row.activated_at)
C3_AlreadyUsedWithoutVerifier ==
    /\ [][C3_PreCheckStep]_vars
    /\ [](\A r \in Requests :
            lic[r].res.alreadyUsed => Done(r) /\ lic[r].fetches = 0)

\* A request of another user than the one who redeemed the key was answered
\* "already used" with the redeemer's user id.
C3_Witness ==
    \E r \in Requests, row \in license_usage :
        /\ Done(r)
        /\ lic[r].res.alreadyUsed
        /\ row.license_key = lic[r].licenseKey
        /\ lic[r].res.usedBy = row.user_id
        /\ lic[r].userId # row.user_id
        /\ lic[r].fetches = 0

\* C4: when the verifier answers "not authentic" the request answers HTTP 200
\* with success:false and the verifier's message, and writes no row; rows
\* come from successful requests only, so the key stays unseen and a later
\* authentic redeem of it succeeds.
C4_RejectedStep ==
    \A r \in Requests :
        ( /\ lic[r].pc = "fetching"
          /\ lic'[r].pc # "fetching"
          /\ lic'[r].data.thrown = ""
          /\ ~lic'[r].data.success )
        => /\ lic'[r].pc = "done"
           /\ lic'[r].res.status = 200
           /\ lic'[r].res.success = "false"
           /\ ~lic'[r].res.alreadyUsed
           /\ (lic'[r].data.message # "" =>
                  lic'[r].res.message = lic'[r].data.message)
           /\ license_usage' = license_usage
C4_RejectedWritesNothing ==
    /\ [][C4_RejectedStep]_vars
    /\ [](\A row \in license_usage :
            \E r \in Requests :
                /\ Done(r)
                /\ lic[r].res.success = "true"
                /\ lic[r].licenseKey = row.license_key
                /\ lic[r].userId = row.user_id)

\* The verifier rejected one request on a key, and a request on the same
\* key that arrived later was confirmed and succeeded.
C4_Witness ==
    \E r1 \in Requests, r2 \in Requests :
        /\ r1 < r2
        /\ lic[r1].licenseKey = lic[r2].licenseKey
        /\ Done(r1)
        /\ lic[r1].data = NotAuthentic
        /\ lic[r1].res.status = 200
        /\ lic[r1].res.message = GumroadMessage
        /\ Done(r2)
        /\ lic[r2].res.success = "true"
        /\ HasRow(license_usage, lic[r2].licenseKey)

\* C5: when the verifier call fails (unreachable, timed out, malformed body)
\* the request ends with HTTP 500 and writes no row, and no request calls the
\* verifier more than once.
C5_ThrownStep ==
    \A r \in Requests :
        ( /\ lic[r].pc = "fetching"
          /\ lic'[r].pc # "fetching"
          /\ lic'[r].data.thrown # "" )
        => /\ lic'[r].pc = "done"
           /\ lic'[r].res.status = 500
           /\ lic'[r].res.success # "true"
           /\ license_usage' = license_usage
C5_VerifierFailureIs500 ==
    /\ [][C5_ThrownStep]_vars
    /\ [](\A r \in Requests : lic[r].fetches <= 1)

\* One request ended on an unreachable verifier and one on a malformed body.
C5_Witness ==
    \E r1 \in Requests, r2 \in Requests :
        /\ Done(r1) /\ lic[r1].data = Unreachable /\ lic[r1].res.status = 500
        /\ Done(r2) /\ lic[r2].data = Malformed /\ lic[r2].res.status = 500
        /\ lic[r1].fetches = 1 /\ lic[r2].fetches = 1
        /\ license_usage = {}

\* C6: a successful redeem stores and returns the tier and credits of the
\* static table (starter 50, creator 130, pro 300), and "unknown" with 0
\* credits for any other product id; an INSERT on a key without a row succeeds
\* for every product id and its row is kept.
TierTable(productId) ==
    IF productId = "2FqGqjM16Jjs0NDRtncN4g==" THEN <<"starter", 50>>
    ELSE IF productId = "wIY3NX2VLnJ48nTz0ZVTIA==" THEN <<"creator", 130>>
    ELSE IF productId = "711rWT3AqbdSnNL0p9MxIw==" THEN <<"pro", 300>>
    ELSE <<"unknown", 0>>
C6_Granted(request, table) ==
    /\ request.res.status = 200
    /\ request.res.success = "true"
    /\ <<request.res.tier, request.res.flowers>> = TierTable(request.productId)
    /\ \E row \in table :
        /\ row.license_key = request.licenseKey
        /\ row.user_id = request.userId
        /\ row.product_id = request.productId
        /\ <<row.product_tier, row.flowers_granted>> = TierTable(request.productId)
C6_InsertStep ==
    \A r \in Requests :
        ( /\ lic[r].pc = "inserting"
          /\ lic'[r].pc = "done"
          /\ ~HasRow(license_usage, lic[r].licenseKey) )
        => C6_Granted(lic'[r], license_usage')
Succeeded(r) == Done(r) /\ lic[r].res.success = "true"
C24_SuccessAfterOwnInsert ==
    /\ \A r \in Requests :
        Succeeded(r) =>
            \E row \in license_usage :
                /\ row.license_key = lic[r].licenseKey
                /\ row.user_id = lic[r].userId
                /\ row.product_id = lic[r].productId
                /\ row.product_tier = lic[r].res.tier
                /\ row.flowers_granted = lic[r].res.flowers
    /\ \A r1 \in Requests, r2 \in Requests :
        ( /\ Succeeded(r1) /\ Succeeded(r2)
          /\ lic[r1].licenseKey = lic[r2].licenseKey ) => r1 = r2
\* Two users raced on one key with authentic credentials: one was answered
\* success:true and its row is stored, the other issued its INSERT too and
\* was answered 500.
C24_Witness ==
    \E r1 \in Requests, r2 \in Requests :
        /\ Succeeded(r1)
        /\ Done(r2)
        /\ lic[r2].licenseKey = lic[r1].licenseKey
        /\ lic[r2].userId # lic[r1].userId
        /\ lic[r2].data = Authentic
        /\ lic[r2].res.status = 500
        /\ lic[r2].fetches = 1
        /\ \E row \in license_usage :
            row.license_key = lic[r1].licenseKey /\ row.user_id = lic[r1].userId

(***************************************************************************)
(* Claims about the PostgreSQL history                                     *)
(***************************************************************************)
AppendedTo(userId) == {a \in appended.items : a.user_id = userId}
StillStored(userId) ==
    {a \in AppendedTo(userId) :
        \E row \in user_history :
            /\ row.user_id = userId
            /\ row.item_id = a.item_id
            /\ row.timestamp = a.timestamp}

\* C7 (checked under SpecHistory, where appends run one at a time): after
\* each completed append a user has at most RetentionLimit rows; and after
\* more than RetentionLimit items with distinct item ids (no item id was
\* appended twice, to any user) were appended to a user, exactly
\* RetentionLimit of them remain, none of them older than an evicted one,
\* in whatever order they were appended.
C7_RetentionBound ==
    /\ \A u \in Users : CountUser(user_history, u) <= RetentionLimit
    /\ appended.distinct =>
        \A u \in Users :
            Cardinality(AppendedTo(u)) > RetentionLimit =>
                /\ CountUser(user_history, u) = RetentionLimit
                /\ Cardinality(StillStored(u)) = RetentionLimit
                /\ \A k \in StillStored(u), d \in AppendedTo(u) \ StillStored(u) :
                       k.timestamp >= d.timestamp

\* RetentionLimit + 1 distinct items were appended to one user; the one
\* appended last (item ids are named in order of appearance) is the oldest by
\* timestamp, and it is the one that was evicted.
C7_Witness ==
    /\ appended.distinct
    /\ \E u \in Users :
        /\ Cardinality(AppendedTo(u)) = RetentionLimit + 1
        /\ CountUser(user_history, u) = RetentionLimit
        /\ \E d \in AppendedTo(u) \ StillStored(u) :
            /\ d.item_id = ItemNames[NumItems]
            /\ \A k \in StillStored(u) : k.timestamp > d.timestamp

\* C9: the totalItems an append returns is the number of rows the user has
\* after that append's eviction (so never more than RetentionLimit).
C9_TotalItemsAfterEviction ==
    (hres.op = "append" /\ hres.status = 200) =>
        /\ hres.totalItems = CountUser(user_history, hres.userId)
        /\ hres.totalItems <= RetentionLimit

(***************************************************************************)
(* Claims about the history query                                          *)
(***************************************************************************)
\* str contains sub as a substring, whatever the case of the letters.
ContainsIgnoringCase(str, sub) ==
    \E i \in 0..(Len(str) - Len(sub)) :
        ToLowerCase(SubSeq(str, i + 1, i + Len(sub))) = ToLowerCase(sub)

Matching(table, userId, search) ==
    {row \in table :
        /\ row.user_id = userId
        /\ search = <<>> \/ ContainsIgnoringCase(row.prompt, search)}

\* The positions page*pageSize .. (page+1)*pageSize - 1 of a list (all of it
\* for the "all" sentinel).
PageWindow(list, page, limit) ==
    IF limit = "all" THEN list
    ELSE SubSeq(list, ParseInt(page) * ParseInt(limit) + 1,
                Min((ParseInt(page) + 1) * ParseInt(limit), Len(list)))

\* C10: a query returns exactly the rows of the user whose prompt contains
\* the search text as a case-insensitive substring (all rows of the user for
\* an empty search text), ordered by timestamp descending, restricted to the
\* positions of the requested page; it returns no row of another user.
C10_QueryReturnsMatchingPage ==
    (hres.op = "query" /\ hres.status = 200) =>
        \E ordered \in OrderByTimestampDesc(
                           Matching(user_history, hres.userId, hres.search)) :
            hres.items =
                LET window == PageWindow(ordered, PageOf(hres.page),
                                         LimitOf(hres.limit))
                IN  [i \in 1..Len(window) |-> HistoryItemOf(window[i])]

\* C23 (checked under SpecHistory): an append for a user that is answered
\* 200 leaves the rows of every other user as they were, also when the
\* submitted item id is held by a row of another user, and the user then
\* has a row (the submitted item is in the user's own history).
C23_AppendStep ==
    (hres'.op = "append" /\ hres'.status = 200) =>
        /\ \A v \in Users \ {hres'.userId} :
               UserRows(user_history', v) = UserRows(user_history, v)
        /\ CountUser(user_history', hres'.userId) >= 1
C23_AppendTouchesOwnRecords == [][C23_AppendStep]_vars

(***************************************************************************)
(* Claims about the flat-file history (checked under SpecFile)             *)
(***************************************************************************)
\* C8: appending a record whose itemId the store already holds creates no
\* second record with that itemId: the store then holds exactly one record
\* with it, which carries the submitted prompt, imageUrl, originalImageUrl
\* and timestamp, and the user has as many records as before.  (The
\* flat-file server writes the submitted item to the head of the file.)
C8_FileAppendStep ==
    \A u \in Users :
        LET old == ReadHistory(files[u])
            new == ReadHistory(files'[u])
        IN  ( /\ files'[u] # files[u]
              /\ \E i \in 1..Len(old) : old[i].id = new[1].id )
            => /\ Cardinality({j \in 1..Len(new) : new[j].id = new[1].id}) = 1
               /\ Len(new) = Len(old)
C8_UpsertKeepsOneRecord ==
    /\ [](\A u \in Users :
            \A i \in 1..Len(files[u].items), j \in 1..Len(files[u].items) :
                files[u].items[i].id = files[u].items[j].id => i = j)
    /\ [](\A a \in user_history, b \in user_history :
            a.item_id = b.item_id => a = b)
    /\ [][C8_FileAppendStep]_vars

\* The records of a history file whose prompt contains the search text as a
\* case-insensitive substring (all of them for an empty search text).
FileMatching(history, search) ==
    {i \in 1..Len(history) :
        search = <<>> \/ ContainsIgnoringCase(history[i].prompt, search)}

\* ceil(totalItems / pageSize), or 1 for the "all" sentinel.
PageCount(totalItems, limit) ==
    IF limit = "all" THEN 1
    ELSE (totalItems + ParseInt(limit) - 1) \div ParseInt(limit)

\* C11: the totalItems a query returns is the number of the user's records
\* that match the search text, and its totalPages is
\* ceil(totalItems / pageSize) for a numeric page size and 1 for "all".
C11_TotalsOfMatching ==
    (hres.op = "query" /\ hres.status = 200) =>
        LET matching == FileMatching(ReadHistory(files[hres.userId]), hres.search)
        IN  /\ hres.totalItems = Cardinality(matching)
            /\ hres.totalPages = PageCount(hres.totalItems, LimitOf(hres.limit))

\* C21: every append leaves a file of at most FileLimit items that holds the
\* appended item first and after it the items the file held before, in
\* their order, as far as the limit allows, whatever the timestamps of the
\* items are; the totalItems of the response is the length of the file.
C21_FileStep ==
    \A u \in Users :
        (hres'.op = "append" /\ hres'.userId = u) =>
            LET old == ReadHistory(files[u])
                new == files'[u].items
            IN  /\ files'[u].state = "json"
                /\ Len(new) = Min(Len(old) + 1, FileLimit)
                /\ new[1] \in FileItems
                /\ SubSeq(new, 2, Len(new)) = SubSeq(old, 1, Len(new) - 1)
                /\ hres'.status = 200
                /\ hres'.totalItems = Len(new)
C21_NewestFirstAtMostLimit ==
    /\ [](\A u \in Users : Len(ReadHistory(files[u])) <= FileLimit)
    /\ [][C21_FileStep]_vars
\* A full file whose newest item carries an older timestamp than the item
\* after it.
C21_Witness ==
    /\ hres.op = "append"
    /\ hres.totalItems = FileLimit
    /\ \E u \in FileUsers :
        /\ files[u].state = "json"
        /\ Len(files[u].items) = FileLimit
        /\ files[u].items[1].timestamp < files[u].items[2].timestamp
        /\ files[u].items[1].id # files[u].items[2].id

\* C22: a query of a user whose file is missing or does not parse is
\* answered 200 with no items and totalItems 0, and an append for such a
\* user is answered 200 and leaves a file that parses and holds exactly the
\* appended item.
C22_AppendStep ==
    \A u \in Users :
        ( /\ hres'.op = "append"
          /\ hres'.userId = u
          /\ files[u].state # "json" )
        => /\ hres'.status = 200
           /\ hres'.success
           /\ hres'.totalItems = 1
           /\ files'[u].state = "json"
           /\ Len(files'[u].items) = 1
           /\ files'[u].items[1] \in FileItems
C22_UnreadableFileIsEmpty ==
    /\ []( ( /\ hres.op = "query"
             /\ files[hres.userId].state # "json" )
           => /\ hres.status = 200
              /\ hres.items = <<>>
              /\ hres.totalItems = 0 )
    /\ [][C22_AppendStep]_vars
C22_Witness ==
    /\ hres.op = "query"
    /\ hres.status = 200
    /\ files[hres.userId] = UnparseableFile

\* C25 (checked under SpecFilePost, where the appends of a user interleave
\* and fewer items are appended than a file keeps): once every append is
\* answered, the file of the user holds the item of every append that was
\* answered success:true.
C25_NoAcknowledgedItemLost ==
    ( /\ NumAppends < FileLimit
      /\ \A a \in Appends : post[a].pc = "done" )
    => \A a \in Appends :
           post[a].res.success =>
               \E i \in 1..Len(ReadHistory(files[post[a].userId])) :
                   ReadHistory(files[post[a].userId])[i] = post[a].historyItem

(***************************************************************************)
(* Claims about the history query, continued (checked under SpecQuery)     *)
(***************************************************************************)
\* C12: a query for a user without rows is answered 200 with an empty item
\* list, totalItems 0 and totalPages 0, for every page, page size (numeric
\* or "all") and search text.
C12_EmptyUserEmptyPage ==
    ( /\ hres.op = "query"
      /\ CountUser(user_history, hres.userId) = 0 )
    => /\ hres.status = 200
       /\ hres.items = <<>>
       /\ hres.totalItems = 0
       /\ hres.totalPages = 0

(***************************************************************************)
(* Claims about update-frame (checked under SpecFrame)                     *)
(***************************************************************************)
\* C13: an update-frame request that carries itemId and frameId changes only
\* the frame_id of the row that matches both its userId and its itemId and
\* reports updatedRows 1; when no row matches both (the item id is unknown,
\* or it is the item of another user) it answers 404 and changes no row; no
\* response reports more than one updated row.
C13_FrameStep ==
    (hres'.op = "frame" /\ hres'.status # 400) =>
        LET matched == {row \in user_history :
                           /\ row.user_id = hres'.userId
                           /\ row.item_id = hres'.itemId}
        IN  IF matched = {}
            THEN /\ hres'.status = 404
                 /\ user_history' = user_history
            ELSE /\ hres'.status = 200
                 /\ hres'.updatedRows = 1
                 /\ Cardinality(matched) = 1
                 /\ \E frameId \in FrameIds :
                        user_history' =
                            {IF row \in matched
                             THEN [row EXCEPT !.frame_id = frameId]
                             ELSE row : row \in user_history}
C13_UpdateFrameOnlyFrameId ==
    /\ [][C13_FrameStep]_vars
    /\ [](hres.op = "frame" => hres.updatedRows <= 1)

\* An earlier update set the frame of an item, and an update of an item that
\* belongs to another user than the request's was answered 404.
C13_Witness ==
    /\ hres.op = "frame"
    /\ hres.status = 404
    /\ \E row \in user_history :
        /\ row.item_id = hres.itemId
        /\ row.user_id # hres.userId
    /\ \E row \in user_history : row.frame_id = "f2"
    /\ \E row \in user_history : row.frame_id = "f1"

(***************************************************************************)
(* Claims about the license rows (checked under SpecAdmin)                 *)
(***************************************************************************)
\* C14: once license_usage holds a row for a key, every later state holds
\* exactly that row for the key, with the same user_id, product_id,
\* product_tier, flowers_granted, activated_at and status, whatever redeem
\* and admin requests run.
C14_KeyStep ==
    \A k \in LicenseKeys :
        LET before == {row \in license_usage : row.license_key = k}
            after == {row \in license_usage' : row.license_key = k}
        IN  before # {} => after = before
C14_RowsNeverChange == [][C14_KeyStep]_vars

\* A key has a row, a later redeem of the key by another user has ended,
\* and the admin request has listed the row.
C14_Witness ==
    /\ adm.pc = "done"
    /\ adm.res.totalItems >= 1
    /\ \E r1 \in Requests, r2 \in Requests, row \in license_usage :
        /\ Done(r1) /\ lic[r1].res.success = "true"
        /\ row.license_key = lic[r1].licenseKey
        /\ row.user_id = lic[r1].userId
        /\ Done(r2) /\ lic[r2].licenseKey = row.license_key
        /\ lic[r2].userId # row.user_id
        /\ lic[r2].data = Authentic

(***************************************************************************)
(* Claims about the connection pool (checked under SpecPool)               *)
(***************************************************************************)
\* C17: no redeem request waits for a storage connection while every
\* connection is held by redeem requests that wait for the verifier's answer
\* on other keys.
C17_NoWaitBehindVerifier ==
    \A r \in Requests :
        ~ ( /\ lic[r].pc = "waiting"
            /\ HeldClients >= poolMax
            /\ \A q \in Requests :
                lic[q].client =>
                    /\ lic[q].pc = "fetching"
                    /\ lic[q].licenseKey # lic[r].licenseKey )

(***************************************************************************)
(* Claims about concurrent and failing appends (checked under SpecAppend)  *)
(***************************************************************************)
InFlight(a) == ap[a].pc \in {"upsert", "count", "delete"}
LacksField(historyItem) ==
    ~Truthy(historyItem.id) \/ historyItem.prompt = UndefinedPrompt

\* C15: an append whose body lacks id or prompt is answered 400 with an
\* error message and changes no row (as update-frame and verify-license
\* answer a request that lacks a field).
C15_AppendStep ==
    \A a \in Appends :
        ( /\ InFlight(a)
          /\ ap'[a].pc = "idle"
          /\ LacksField(ap[a].item) )
        => /\ hres'.status = 400
           /\ hres'.error # ""
           /\ user_history' = user_history
C15_MissingFieldIs400 == [][C15_AppendStep]_vars

\* C16: a handler holds a client only between pool.connect() and its
\* response: no client stays out after the response, whether the handler
\* succeeded or a query of it failed.
C16_ClientsReleased ==
    /\ leaked = 0
    /\ \A a \in Appends : ap[a].client => InFlight(a)
    /\ (\A a \in Appends : ap[a].pc = "idle") => HeldClients = 0

\* C18: the step that completes an append of a user leaves the user with at
\* most RetentionLimit rows; and a user has more rows than that only while
\* an append of the user is between its upsert and its eviction, or after
\* such an append failed and before the next append of the user completes.
C18_CompletionStep ==
    \A a \in Appends :
        ( /\ ap[a].pc = "delete"
          /\ ap'[a].pc = "idle"
          /\ leaked' = leaked )
        => CountUser(user_history', ap[a].userId) <= RetentionLimit
C18_OvershootIsTransient ==
    /\ [][C18_CompletionStep]_vars
    /\ [](\A u \in Users :
            CountUser(user_history, u) > RetentionLimit =>
                \/ \E a \in Appends :
                    ap[a].userId = u /\ ap[a].pc \in {"count", "delete"}
                \/ u \in unevicted)

\* Two appends of one user that holds RetentionLimit rows have both upserted
\* and none has evicted: the user has RetentionLimit + 2 rows.
C18_Witness ==
    \E u \in Users :
        /\ CountUser(user_history, u) = RetentionLimit + 2
        /\ u \notin unevicted
        /\ \E a \in Appends, b \in Appends :
            /\ a # b
            /\ ap[a].userId = u /\ ap[a].pc = "delete"
            /\ ap[b].userId = u /\ ap[b].pc = "delete"

\* C19: the upsert of an append writes the submitted values; when a later
\* statement of the append fails (the count, the eviction) no row changes,
\* so the upsert is not rolled back, and the caller is answered 500
\* "Failed to save history".
C19_UpsertStep ==
    \A a \in Appends :
        (ap[a].pc = "upsert" /\ ap'[a].pc = "count") =>
            \E row \in user_history' :
                /\ row.item_id = ap[a].item.id
                /\ row.prompt = ap[a].item.prompt
                /\ row.image_url = ap[a].item.imageUrl
                /\ row.timestamp = ap[a].timestamp
C19_FailureStep ==
    \A a \in Appends :
        ( /\ ap[a].pc \in {"count", "delete"}
          /\ ap'[a].pc = "idle"
          /\ leaked' # leaked )
        => /\ user_history' = user_history
           /\ hres'.op = "append"
           /\ hres'.status = 500
           /\ hres'.error = "Failed to save history"
C19_EvictionFailureKeepsUpsert ==
    /\ [][C19_UpsertStep]_vars
    /\ [][C19_FailureStep]_vars

\* An append was answered 500 after its upsert: its user is left with
\* RetentionLimit + 1 rows, and no append is in flight.
C19_Witness ==
    /\ hres.op = "append"
    /\ hres.status = 500
    /\ hres.userId \in unevicted
    /\ CountUser(user_history, hres.userId) = RetentionLimit + 1
    /\ \A a \in Appends : ap[a].pc = "idle"

\* C20: a 500 response carries a generic message only: no field holds the
\* message of the error that was caught.
C20_NoErrorDetail ==
    /\ hres.status = 500 =>
        /\ hres.details = ""
        /\ hres.error \notin {NotNullViolation, ConnectionLost}
        /\ hres.message \notin {NotNullViolation, ConnectionLost}
    /\ \A r \in Requests :
        lic[r].res.status = 500 =>
            lic[r].res.message \notin {NotNullViolation, ConnectionLost}

====
